---- MODULE Spec2Model ----
(***************************************************************************)
(* Model of src/function_app.py: the HTTP handler githubrepodocs.          *)
(*                                                                         *)
(* Texts returned by the language model are sequences of one-character     *)
(* strings, so that strip / startswith / replace / json.loads are computed *)
(* character by character.  OCR texts are sequences of newline-separated   *)
(* segments: the empty string is <<"">>, "a\nb" is <<"a","b">>.            *)
(***************************************************************************)
EXTENDS Integers, Sequences, FiniteSets, TLC

VARIABLES env, pc, clients, query, body, case_id, store, upIdx, blob_count, attachments,
          nextTask, running, future, failed, overtaken, results, ocr_text,
          raw1, entities, raw2, summary, db, responses, calls,
          fJ, fStyle, fpc, fCleaned, fParsed

vars == <<env, pc, clients, query, body, case_id, store, upIdx, blob_count, attachments,
          nextTask, running, future, failed, overtaken, results, ocr_text,
          raw1, entities, raw2, summary, db, responses, calls,
          fJ, fStyle, fpc, fCleaned, fParsed>>

handlerVars == <<env, pc, clients, query, body, case_id, store, upIdx, blob_count, attachments,
          nextTask, running, future, failed, overtaken, results, ocr_text,
          raw1, entities, raw2, summary, db, responses, calls>>

fenceVars == <<fJ, fStyle, fpc, fCleaned, fParsed>>

-----------------------------------------------------------------------------
(* Bounds *)

MaxFiles == 2

MaxPieces == 3

-----------------------------------------------------------------------------
(* Generic sequence helpers *)

RECURSIVE Flatten(_)
Flatten(ss) == IF ss = <<>> THEN <<>> ELSE Head(ss) \o Flatten(Tail(ss))

SeqsUpTo(S, n) == UNION {[1..k -> S] : k \in 0..n}

Range(s) == {s[i] : i \in 1..Len(s)}

-----------------------------------------------------------------------------
(* Python str operations on character sequences *)

Whitespace == {" ", "\n"}

StartsWith(s, p) == Len(s) >= Len(p) /\ SubSeq(s, 1, Len(p)) = p

RECURSIVE LStrip(_)
LStrip(s) == IF s # <<>> /\ Head(s) \in Whitespace THEN LStrip(Tail(s)) ELSE s

RECURSIVE RStrip(_)
RStrip(s) == IF s # <<>> /\ s[Len(s)] \in Whitespace
             THEN RStrip(SubSeq(s, 1, Len(s) - 1)) ELSE s

Strip(s) == RStrip(LStrip(s))

\* s.replace(old, ""): leftmost, non-overlapping occurrences are removed
RECURSIVE Remove(_, _)
Remove(s, old) ==
    IF Len(s) < Len(old) THEN s
    ELSE IF StartsWith(s, old) THEN Remove(SubSeq(s, Len(old) + 1, Len(s)), old)
    ELSE <<Head(s)>> \o Remove(Tail(s), old)

\* The backtick character (the lexer of TLA+ has no backtick in strings)
BT == "BT"

Fence == <<BT, BT, BT>>

FenceJson == <<BT, BT, BT, "j", "s", "o", "n">>

\* cleaned = raw.strip(); if cleaned.startswith(fence): replace, replace, strip
CleanFence(raw) ==
    LET c == Strip(raw)
    IN IF StartsWith(c, Fence)
       THEN Strip(Remove(Remove(c, FenceJson), Fence))
       ELSE c

\* json.loads on the JSON subset of the model: one string literal, optionally
\* surrounded by whitespace; no quote and no control character inside it.
NoParse == [ok |-> FALSE, val |-> <<>>]

JsonLoads(s) ==
    LET t == Strip(s)
    IN IF /\ Len(t) >= 2
          /\ t[1] = "\""
          /\ t[Len(t)] = "\""
          /\ \A i \in 2..(Len(t) - 1) : t[i] \notin {"\"", "\n"}
       THEN [ok |-> TRUE, val |-> SubSeq(t, 2, Len(t) - 1)]
       ELSE NoParse

-----------------------------------------------------------------------------
(* Configuration *)

\* required_env_vars, in dictionary (insertion) order
EnvKeys == <<"BLOB_CONN_STR", "BLOB_CONTAINER_NAME", "DOC_INT_KEY",
             "DOC_INT_ENDPOINT", "AZURE_API_ENDPOINT", "AZURE_API_KEY",
             "AZURE_API_VERSION", "COSMOS_CONN_STR", "COSMOS_DB_NAME",
             "COSMOS_CONTAINER_NAME">>

\* os.getenv(key): None, the empty string, or a non-empty value
EnvValues == {"unset", "empty", "set"}

\* `not value`
Falsy(v) == v \in {"unset", "empty", "None", ""}

\* A comprehension that stops at the first missing key
FirstMissingVar(e) ==
    LET idx == {i \in 1..Len(EnvKeys) : Falsy(e[EnvKeys[i]])}
    IN IF idx = {} THEN <<>>
       ELSE <<EnvKeys[CHOOSE i \in idx : \A k \in idx : i <= k]>>

\* missing_vars = [key for key, value in required_env_vars.items() if not value]
RECURSIVE MissingFrom(_, _)
MissingFrom(e, i) ==
    IF i > Len(EnvKeys) THEN <<>>
    ELSE (IF Falsy(e[EnvKeys[i]]) THEN <<EnvKeys[i]>> ELSE <<>>) \o MissingFrom(e, i + 1)

MissingVars(e) == MissingFrom(e, 1)

-----------------------------------------------------------------------------
(* Request, object store, OCR service, language model: the inputs *)

CaseIds == {"c1", "c2"}

\* req.params.get('case_id')
QueryValues == {"None", ""} \cup CaseIds

\* File names are sequences of path tokens; "\\" is one backslash
FileNames == { <<"d", "\\", "a">>, <<"..", "/", "a">> }

FileBytes == {"b1", "b2"}

Files == [filename : FileNames, bytes : FileBytes]

\* The request body: absent, not JSON, multipart form data carrying the list
\* under 'files', or a JSON value (an object with or without case_id, an
\* array, null)
NoFiles == <<>>

Bodies ==
    [kind : {"absent", "invalid", "array", "null"}, case_id : {"None"}, files : {NoFiles}]
    \cup [kind : {"object"}, case_id : {"None", ""} \cup CaseIds, files : {NoFiles}]
    \cup [kind : {"multipart"}, case_id : {"None"}, files : SeqsUpTo(Files, MaxFiles)]

NoBody == [kind |-> "unread", case_id |-> "None", files |-> NoFiles]

\* Blob names
Path(c, name) == <<c, "/">> \o name

\* Container contents before the request: none, another case only, four
\* blobs of case c1
EmptyStore == {}

PriorStores ==
    { EmptyStore,
      { [name |-> <<"c2", "/", "a">>, bytes |-> "b1"] },
      { [name |-> <<"c1", "/", "a">>, bytes |-> "b1"],
        [name |-> <<"c1", "/", "b">>, bytes |-> "b2"],
        [name |-> <<"c1", "/", "b", "/", "a">>, bytes |-> "b2"],
        [name |-> <<"c1", "/", "d", "/", "a">>, bytes |-> "b1"],
        [name |-> <<"c2", "/", "a">>, bytes |-> "b2"] } }

\* Character order of the tokens that occur in blob names
TokRank(t) ==
    CASE t = ".." -> 1 [] t = "/" -> 2 [] t = "\\" -> 3 [] t = "a" -> 4
      [] t = "b" -> 5 [] t = "c1" -> 6 [] t = "c2" -> 7 [] t = "d" -> 8
      [] OTHER -> 9

RECURSIVE LexLess(_, _)
LexLess(p, q) ==
    IF q = <<>> THEN FALSE
    ELSE IF p = <<>> THEN TRUE
    ELSE IF Head(p) = Head(q) THEN LexLess(Tail(p), Tail(q))
    ELSE TokRank(Head(p)) < TokRank(Head(q))

\* the prebuilt-layout result for each content: the lines of its pages
OcrLines(b) == IF b = "b1" THEN <<"L1">> ELSE <<"L2", "L3">>

EmptyStr == <<"">>

\* "\n".join(list of lines)
JoinLines(lines) == IF lines = <<>> THEN EmptyStr ELSE lines

\* "\n".join(list of texts)
JoinTexts(texts) == IF texts = <<>> THEN EmptyStr ELSE Flatten(texts)

JsonX == <<"\"", "x", "\"">>

JsonY == <<"\"", "y", "\"">>

NotJson == <<"n", "j">>

\* message.content of a completion
RawOutputs ==
    { JsonX,
      FenceJson \o <<"\n">> \o JsonY \o <<"\n">> \o Fence,
      NotJson,
      <<" ">> \o NotJson \o <<"\n">>,
      Fence \o NotJson \o Fence }

\* random.randint(10, 99), sampled
RandomSuffixes == {10, 99}

-----------------------------------------------------------------------------
(* Handler state *)

NoCalls == [upload |-> 0, list |-> 0, ocr |-> 0, llm |-> 0, upsert |-> 0]

NotDone == [done |-> FALSE, exc |-> FALSE, result |-> EmptyStr]

\* func.HttpResponse(body, status_code=...): json is TRUE when the body was
\* produced by json.dumps, FALSE for the bare f-string of line 36
Body(st, js, err) ==
    [status |-> st, json |-> js, error |-> err, names |-> <<>>, case |-> "None",
     raw_output |-> <<>>, value |-> <<>>, message |-> ""]

HandlerIdle ==
    /\ pc = "start"
    /\ clients = FALSE
    /\ query = "None"
    /\ body = NoBody
    /\ case_id = "None"
    /\ upIdx = 0
    /\ blob_count = -1
    /\ attachments = <<>>
    /\ nextTask = 0
    /\ running = {}
    /\ future = <<>>
    /\ failed = {}
    /\ overtaken = FALSE
    /\ results = <<>>
    /\ ocr_text = EmptyStr
    /\ raw1 = <<>>
    /\ entities = <<>>
    /\ raw2 = <<>>
    /\ summary = <<>>
    /\ db = <<>>
    /\ responses = <<>>
    /\ calls = NoCalls

FenceIdle ==
    /\ fJ = <<>>
    /\ fStyle = [tag |-> FALSE, pad |-> FALSE]
    /\ fpc = "off"
    /\ fCleaned = [w |-> <<>>, u |-> <<>>]
    /\ fParsed = [w |-> NoParse, u |-> NoParse]

Init ==
    /\ env \in [Range(EnvKeys) -> EnvValues]
    /\ store \in PriorStores
    /\ HandlerIdle
    /\ FenceIdle

\* return func.HttpResponse(...)
Respond(r) ==
    /\ responses' = Append(responses, r)
    /\ pc' = "done"

\* except Exception as e: (lines 280-289)
Raise(msg) == Respond([Body(500, TRUE, "Internal server error") EXCEPT !.message = msg])

\* Lines 20-40
CheckConfig ==
    /\ pc = "start"
    /\ LET missing_vars == MissingVars(env)
       IN IF missing_vars # <<>>
          THEN Respond([Body(500, FALSE, "Missing required environment variables")
                          EXCEPT !.names = missing_vars])
          ELSE /\ pc' = "clients"
               /\ UNCHANGED responses
    /\ UNCHANGED <<env, clients, query, body, case_id, store, upIdx, blob_count, attachments,
                   nextTask, running, future, failed, overtaken, results, ocr_text,
                   raw1, entities, raw2, summary, db, calls, fenceVars>>

\* Lines 45-61
ConstructClients ==
    /\ pc = "clients"
    /\ clients' = TRUE
    /\ pc' = "case_id"
    /\ UNCHANGED <<env, query, body, case_id, store, upIdx, blob_count, attachments,
                   nextTask, running, future, failed, overtaken, results, ocr_text,
                   raw1, entities, raw2, summary, db, responses, calls, fenceVars>>

\* A client constructor rejects its configuration value
ConstructClientsFails ==
    /\ pc = "clients"
    /\ Raise("ValueError")
    /\ UNCHANGED <<env, clients, query, body, case_id, store, upIdx, blob_count, attachments,
                   nextTask, running, future, failed, overtaken, results, ocr_text,
                   raw1, entities, raw2, summary, db, calls, fenceVars>>

\* The value of case_id after lines 66-72, or "raise" when req_body.get
\* is applied to a JSON value that is not an object (AttributeError)
ResolvedCaseId(q, b) ==
    IF ~Falsy(q) THEN q
    ELSE IF b.kind \in {"absent", "invalid", "multipart"} THEN q
    ELSE IF b.kind = "object" THEN b.case_id
    ELSE "raise"

\* Lines 66-81; the request is read here for the first time
ResolveCaseId ==
    /\ pc = "case_id"
    /\ \E q \in QueryValues, b \in Bodies :
          /\ query' = q
          /\ body' = b
          /\ LET c == ResolvedCaseId(q, b)
             IN IF c = "raise"
                THEN /\ Raise("AttributeError")
                     /\ UNCHANGED <<case_id, upIdx>>
                ELSE IF Falsy(c)
                THEN /\ Respond(Body(400, TRUE, "case_id is required"))
                     /\ case_id' = c
                     /\ UNCHANGED upIdx
                ELSE /\ case_id' = c
                     /\ upIdx' = 1
                     /\ pc' = "upload"
                     /\ UNCHANGED responses
    /\ UNCHANGED <<env, clients, store, blob_count, attachments,
                   nextTask, running, future, failed, overtaken, results, ocr_text,
                   raw1, entities, raw2, summary, db, calls, fenceVars>>

\* file.filename.replace("\\", "/")
Sanitize(name) == [i \in 1..Len(name) |-> IF name[i] = "\\" THEN "/" ELSE name[i]]

\* upload_blob(data, overwrite=False) on an existing name raises instead
PutNoOverwrite(st, name, data) ==
    IF \E b \in st : b.name = name THEN st
    ELSE st \cup {[name |-> name, bytes |-> data]}

\* blob_client.upload_blob(data, overwrite=True)
PutBlob(st, name, data) ==
    {b \in st : b.name # name} \cup {[name |-> name, bytes |-> data]}

\* Blobs in name order, as list_blobs(name_starts_with=prefix) returns them
RECURSIVE SortBlobs(_)
SortBlobs(S) ==
    IF S = {} THEN <<>>
    ELSE LET m == CHOOSE b \in S : \A o \in S \ {b} : LexLess(b.name, o.name)
         IN <<m>> \o SortBlobs(S \ {m})

\* A listing that ignores the prefix
ListAllBlobs(st, prefix) == SortBlobs(st)

ListBlobs(st, prefix) == SortBlobs({b \in st : StartsWith(b.name, prefix)})

\* blob.name.split("/")[-1]
RECURSIVE LastSegment(_)
LastSegment(name) ==
    IF \E i \in 1..Len(name) : name[i] = "/"
    THEN LastSegment(Tail(name))
    ELSE name

\* Lines 84-98, one iteration of the loop
UploadFile ==
    /\ pc = "upload"
    /\ upIdx <= Len(body.files)
    /\ LET file == body.files[upIdx]
           blob_path == Path(case_id, Sanitize(file.filename))
       IN store' = PutBlob(store, blob_path, file.bytes)
    /\ upIdx' = upIdx + 1
    /\ calls' = [calls EXCEPT !.upload = @ + 1]
    /\ UNCHANGED <<env, pc, clients, query, body, case_id, blob_count, attachments,
                   nextTask, running, future, failed, overtaken, results, ocr_text,
                   raw1, entities, raw2, summary, db, responses, fenceVars>>

\* upload_blob raises
UploadFails ==
    /\ pc = "upload"
    /\ upIdx <= Len(body.files)
    /\ calls' = [calls EXCEPT !.upload = @ + 1]
    /\ Raise("HttpResponseError")
    /\ UNCHANGED <<env, clients, query, body, case_id, store, upIdx, blob_count, attachments,
                   nextTask, running, future, failed, overtaken, results, ocr_text,
                   raw1, entities, raw2, summary, db, fenceVars>>

\* Lines 101-149: listing, downloads, the 404 exit, and executor.map's submission
\* of one future per attachment
ScanBlobs ==
    /\ pc = "upload"
    /\ upIdx > Len(body.files)
    /\ calls' = [calls EXCEPT !.list = @ + 1]
    /\ LET blob_list == ListBlobs(store, <<case_id, "/">>)
           atts == [i \in 1..Len(blob_list) |->
                      [fileName |-> LastSegment(blob_list[i].name),
                       fileBytes |-> blob_list[i].bytes]]
       IN /\ blob_count' = Len(blob_list)
          /\ attachments' = atts
          /\ IF atts = <<>>
             THEN /\ Respond([Body(404, TRUE, "No attachments found in Blob for case")
                                EXCEPT !.case = case_id])
                  /\ UNCHANGED <<nextTask, future>>
             ELSE /\ pc' = "ocr"
                  /\ nextTask' = 1
                  /\ future' = [i \in 1..Len(atts) |-> NotDone]
                  /\ UNCHANGED responses
    /\ UNCHANGED <<env, clients, query, body, case_id, store, upIdx,
                   running, failed, overtaken, results, ocr_text,
                   raw1, entities, raw2, summary, db, fenceVars>>

\* list_blobs or download_blob raises
ScanFails ==
    /\ pc = "upload"
    /\ upIdx > Len(body.files)
    /\ calls' = [calls EXCEPT !.list = @ + 1]
    /\ Raise("HttpResponseError")
    /\ UNCHANGED <<env, clients, query, body, case_id, store, upIdx, blob_count, attachments,
                   nextTask, running, future, failed, overtaken, results, ocr_text,
                   raw1, entities, raw2, summary, db, fenceVars>>

-----------------------------------------------------------------------------
(* OCR fan-out: ThreadPoolExecutor(max_workers=4).map *)

max_workers == 4

NumTasks == Len(attachments)

NumDone == Cardinality({i \in 1..Len(future) : future[i].done})

\* Results stored in completion order
CompletionSlot(i) == NumDone + 1

\* The future a worker completes is the one submitted for its task
FutureOf(i) == i

\* A worker thread takes the next queued task (FIFO work queue)
WorkerTake ==
    /\ pc = "ocr"
    /\ nextTask <= NumTasks
    /\ Cardinality(running) < max_workers
    /\ running' = running \cup {nextTask}
    /\ nextTask' = nextTask + 1
    /\ calls' = [calls EXCEPT !.ocr = @ + 1]
    /\ UNCHANGED <<env, pc, clients, query, body, case_id, store, upIdx, blob_count, attachments,
                   future, failed, overtaken, results, ocr_text,
                   raw1, entities, raw2, summary, db, responses, fenceVars>>

\* analyze_files without its try/except: the exception stays in the future
AnalyzeFilesUncaught(text, raises) == [done |-> TRUE, exc |-> raises, result |-> text]

\* analyze_files (lines 127-141): the joined lines, or "" when the analysis raises
AnalyzeFiles(text, raises) ==
    [done |-> TRUE, exc |-> FALSE, result |-> IF raises THEN EmptyStr ELSE text]

\* "\n".join(lines) over result.pages of attachment i
OcrText(i) == JoinLines(OcrLines(attachments[i].fileBytes))

\* A task finishes while a task submitted before it has not
Overtakes(i) == \E k \in 1..(i - 1) : ~future[k].done

\* A worker's call of analyze_files returns normally
WorkerReturn(i) ==
    /\ pc = "ocr"
    /\ i \in running
    /\ running' = running \ {i}
    /\ future' = [future EXCEPT ![FutureOf(i)] = AnalyzeFiles(OcrText(i), FALSE)]
    /\ overtaken' = (overtaken \/ Overtakes(i))
    /\ UNCHANGED <<env, pc, clients, query, body, case_id, store, upIdx, blob_count, attachments,
                   nextTask, failed, results, ocr_text,
                   raw1, entities, raw2, summary, db, responses, calls, fenceVars>>

\* begin_analyze_document or poller.result() raises inside a worker
WorkerRaise(i) ==
    /\ pc = "ocr"
    /\ i \in running
    /\ running' = running \ {i}
    /\ failed' = failed \cup {i}
    /\ future' = [future EXCEPT ![FutureOf(i)] = AnalyzeFiles(OcrText(i), TRUE)]
    /\ overtaken' = (overtaken \/ Overtakes(i))
    /\ UNCHANGED <<env, pc, clients, query, body, case_id, store, upIdx, blob_count, attachments,
                   nextTask, results, ocr_text,
                   raw1, entities, raw2, summary, db, responses, calls, fenceVars>>

\* list(executor.map(...)) and the exit of the with block: every future is done;
\* results are read future by future in submission order, and a future that
\* holds an exception re-raises it; line 151
Gather ==
    /\ pc = "ocr"
    /\ nextTask > NumTasks
    /\ running = {}
    /\ IF \E i \in 1..NumTasks : future[i].exc
       THEN /\ Raise("OcrError")
            /\ UNCHANGED <<results, ocr_text>>
       ELSE /\ results' = [i \in 1..NumTasks |-> future[i].result]
            /\ ocr_text' = JoinTexts(results')
            /\ pc' = "llm1"
            /\ UNCHANGED responses
    /\ UNCHANGED <<env, clients, query, body, case_id, store, upIdx, blob_count, attachments,
                   nextTask, running, future, failed, overtaken,
                   raw1, entities, raw2, summary, db, calls, fenceVars>>

-----------------------------------------------------------------------------
(* Language model calls and persistence *)

\* Lines 196-221: first completion, fence cleanup, json.loads, the 500 exit
CallLlm1 ==
    /\ pc = "llm1"
    /\ \E raw_output \in RawOutputs :
          LET cleaned == CleanFence(raw_output)
              parsed == JsonLoads(cleaned)
          IN /\ raw1' = raw_output
             /\ IF parsed.ok
                THEN /\ entities' = parsed.val
                     /\ pc' = "llm2"
                     /\ UNCHANGED responses
                ELSE /\ Respond([Body(500, TRUE, "Invalid JSON returned by model")
                                   EXCEPT !.raw_output = cleaned])
                     /\ UNCHANGED entities
    /\ calls' = [calls EXCEPT !.llm = @ + 1]
    /\ UNCHANGED <<env, clients, query, body, case_id, store, upIdx, blob_count, attachments,
                   nextTask, running, future, failed, overtaken, results, ocr_text,
                   raw2, summary, db, fenceVars>>

\* Lines 240-256: second completion; json.loads is not guarded here
CallLlm2 ==
    /\ pc = "llm2"
    /\ \E final_raw_output \in RawOutputs :
          LET cleaned == CleanFence(final_raw_output)
              parsed == JsonLoads(cleaned)
          IN /\ raw2' = final_raw_output
             /\ IF parsed.ok
                THEN /\ summary' = parsed.val
                     /\ pc' = "store"
                     /\ UNCHANGED responses
                ELSE /\ Raise("JSONDecodeError")
                     /\ UNCHANGED summary
    /\ calls' = [calls EXCEPT !.llm = @ + 1]
    /\ UNCHANGED <<env, clients, query, body, case_id, store, upIdx, blob_count, attachments,
                   nextTask, running, future, failed, overtaken, results, ocr_text,
                   raw1, entities, db, fenceVars>>

\* chat.completions.create raises (either call)
LlmFails ==
    /\ pc \in {"llm1", "llm2"}
    /\ calls' = [calls EXCEPT !.llm = @ + 1]
    /\ Raise("APIError")
    /\ UNCHANGED <<env, clients, query, body, case_id, store, upIdx, blob_count, attachments,
                   nextTask, running, future, failed, overtaken, results, ocr_text,
                   raw1, entities, raw2, summary, db, fenceVars>>

\* A document keyed by the query parameter alone, ignoring the body's case_id
DocumentFromQuery(c, r) ==
    [id |-> <<query, "-", r>>, case_id |-> query, ocr_text |-> ocr_text,
     extracted_entities |-> entities, summary_result |-> summary]

\* Lines 260-268 (the timestamp field is not modelled)
Document(c, r) ==
    [id |-> <<c, "-", r>>, case_id |-> c, ocr_text |-> ocr_text,
     extracted_entities |-> entities, summary_result |-> summary]

\* Lines 270-278
StoreAndRespond ==
    /\ pc = "store"
    /\ \E r \in RandomSuffixes : db' = Append(db, Document(case_id, r))
    /\ calls' = [calls EXCEPT !.upsert = @ + 1]
    /\ Respond([Body(200, TRUE, "") EXCEPT !.value = summary])
    /\ UNCHANGED <<env, clients, query, body, case_id, store, upIdx, blob_count, attachments,
                   nextTask, running, future, failed, overtaken, results, ocr_text,
                   raw1, entities, raw2, summary, fenceVars>>

\* container.upsert_item raises
UpsertFails ==
    /\ pc = "store"
    /\ calls' = [calls EXCEPT !.upsert = @ + 1]
    /\ Raise("CosmosHttpResponseError")
    /\ UNCHANGED <<env, clients, query, body, case_id, store, upIdx, blob_count, attachments,
                   nextTask, running, future, failed, overtaken, results, ocr_text,
                   raw1, entities, raw2, summary, db, fenceVars>>

Next ==
    \/ CheckConfig
    \/ ConstructClients
    \/ ConstructClientsFails
    \/ ResolveCaseId
    \/ UploadFile
    \/ UploadFails
    \/ ScanBlobs
    \/ ScanFails
    \/ WorkerTake
    \/ \E i \in 1..NumTasks : WorkerReturn(i)
    \/ \E i \in 1..NumTasks : WorkerRaise(i)
    \/ Gather
    \/ CallLlm1
    \/ CallLlm2
    \/ LlmFails
    \/ StoreAndRespond
    \/ UpsertFails

Spec == Init /\ [][Next]_vars

-----------------------------------------------------------------------------
(* The fence cleanup and json.loads as a pure function of the model's text *)

\* Pieces a JSON string value is built from
Pieces == { Fence, <<"j", "s", "o", "n">>, <<"x">>, <<" ">> }

\* JSON texts: one string literal
JsonTexts == { <<"\"">> \o Flatten(ps) \o <<"\"">> : ps \in SeqsUpTo(Pieces, MaxPieces) }

\* Fence styles: with or without the json tag, with or without outer whitespace
Styles == [tag : BOOLEAN, pad : BOOLEAN]

Wrap(st, J) ==
    (IF st.pad THEN <<" ", "\n">> ELSE <<>>)
    \o Fence \o (IF st.tag THEN <<"j", "s", "o", "n">> ELSE <<>>) \o <<"\n">>
    \o J \o <<"\n">> \o Fence
    \o (IF st.pad THEN <<"\n", " ">> ELSE <<>>)

HandlerOff ==
    /\ env = [k \in Range(EnvKeys) |-> "set"]
    /\ store = EmptyStore
    /\ pc = "off"
    /\ clients = FALSE
    /\ query = "None"
    /\ body = NoBody
    /\ case_id = "None"
    /\ upIdx = 0
    /\ blob_count = -1
    /\ attachments = <<>>
    /\ nextTask = 0
    /\ running = {}
    /\ future = <<>>
    /\ failed = {}
    /\ overtaken = FALSE
    /\ results = <<>>
    /\ ocr_text = EmptyStr
    /\ raw1 = <<>>
    /\ entities = <<>>
    /\ raw2 = <<>>
    /\ summary = <<>>
    /\ db = <<>>
    /\ responses = <<>>
    /\ calls = NoCalls

FenceInit ==
    /\ HandlerOff
    /\ fJ \in JsonTexts
    /\ fStyle \in Styles
    /\ fpc = "raw"
    /\ fCleaned = [w |-> <<>>, u |-> <<>>]
    /\ fParsed = [w |-> NoParse, u |-> NoParse]

\* Lines 207-210 and 250-253, on the fenced and on the bare text
FenceClean ==
    /\ fpc = "raw"
    /\ fCleaned' = [w |-> CleanFence(Wrap(fStyle, fJ)), u |-> CleanFence(fJ)]
    /\ fpc' = "cleaned"
    /\ UNCHANGED <<fJ, fStyle, fParsed, handlerVars>>

\* Lines 213 and 255
FenceParse ==
    /\ fpc = "cleaned"
    /\ fParsed' = [w |-> JsonLoads(fCleaned.w), u |-> JsonLoads(fCleaned.u)]
    /\ fpc' = "parsed"
    /\ UNCHANGED <<fJ, fStyle, fCleaned, handlerVars>>

FenceNext == FenceClean \/ FenceParse

SpecFence == FenceInit /\ [][FenceNext]_vars

-----------------------------------------------------------------------------
(* Properties *)

\* C1: once the OCR step is over, the i-th result is the OCR text of the i-th
\* attachment (the empty string if its analysis raised) whatever the order in
\* which the workers finished, ocr_text is the newline-join of these texts, and
\* no language-model call is issued while an OCR task is queued or running.
C1_OcrOrderPreserved ==
    /\ (calls.llm > 0 \/ pc \in {"llm1", "llm2", "store"}) =>
          /\ nextTask > NumTasks
          /\ running = {}
          /\ \A i \in 1..NumTasks : future[i].done
          /\ calls.ocr = NumTasks
          /\ LET expected == [i \in 1..NumTasks |->
                                IF i \in failed THEN EmptyStr ELSE OcrText(i)]
             IN /\ results = expected
                /\ ocr_text = JoinTexts(expected)
    /\ Cardinality(running) <= max_workers

\* More attachments than workers, a later task finished before an earlier one,
\* and the texts of the first two attachments differ
C1_Witness ==
    /\ pc = "llm1"
    /\ overtaken
    /\ NumTasks > max_workers
    /\ results[1] # results[2]

\* C2: a run that ends with 200 has made exactly one upsert, of a document whose
\* case_id is the request's case identifier and whose id starts with case_id, "-".
C2_OneDocumentPersisted ==
    (pc = "done" /\ responses[1].status = 200) =>
        /\ calls.upsert = 1
        /\ Len(db) = 1
        /\ db[1].case_id = (IF query \in CaseIds THEN query ELSE body.case_id)
        /\ db[1].case_id = case_id
        /\ SubSeq(db[1].id, 1, 2) = <<case_id, "-">>

\* A 200 response for a case identifier that came from the JSON body
C2_Witness ==
    /\ pc = "done"
    /\ responses[1].status = 200
    /\ query = "None"
    /\ body.case_id = "c2"
    /\ Len(db) = 1

\* C3: when the first completion's text does not parse as JSON, the response is
\* 500, its raw_output field is the model's text character for character, and
\* neither a second completion nor an upsert is made.
C3_RawOutputVerbatim ==
    (pc = "done" /\ raw1 # <<>> /\ ~JsonLoads(CleanFence(raw1)).ok) =>
        /\ responses[1].status = 500
        /\ responses[1].raw_output = raw1
        /\ calls.llm = 1
        /\ calls.upsert = 0

\* C4: a JSON text parses to the same value fenced and bare.
C4_FencedParsesSame ==
    (fpc = "parsed") => (fParsed.w = fParsed.u)

\* C5: with a non-empty set M of absent (unset or empty) keys, the handler
\* answers 500 with exactly the keys of M named in the body, before any client
\* is constructed, any external call is made or the request is read.
C5_MissingConfigListed ==
    LET M == {k \in Range(EnvKeys) : env[k] \in {"unset", "empty"}}
    IN (pc # "start" /\ M # {}) =>
          /\ pc = "done"
          /\ Len(responses) = 1
          /\ responses[1].status = 500
          /\ Range(responses[1].names) = M
          /\ clients = FALSE
          /\ calls = NoCalls
          /\ body = NoBody
          /\ db = <<>>

\* Three keys absent, one of them set to the empty string
C5_Witness ==
    /\ pc = "done"
    /\ env["BLOB_CONN_STR"] = "unset"
    /\ env["AZURE_API_KEY"] = "empty"
    /\ env["COSMOS_DB_NAME"] = "unset"
    /\ Cardinality({k \in Range(EnvKeys) : env[k] = "set"}) = 7

\* C6: no case_id in the query and none in the body (absent, not JSON, or JSON
\* of any shape without the field) gives 400 with an error field and no
\* external call; with case_id in both, the query's value is used.
C6_NoCaseIdIs400 ==
    /\ (pc = "done" /\ body.kind # "unread" /\ query = "None" /\ body.case_id = "None") =>
          /\ responses[1].status = 400
          /\ responses[1].error # ""
          /\ calls = NoCalls
    /\ (pc # "case_id" /\ query \in CaseIds /\ body.kind = "object"
          /\ body.case_id \in CaseIds) => case_id = query

\* C7 (as claimed): once the listing has returned, every uploaded file is among
\* the attachments, with its own content, and a request that uploaded a file
\* is not answered 404.
C7_EveryUploadRetrieved ==
    (blob_count >= 0) =>
        /\ calls.upload = Len(body.files)
        /\ \A k \in 1..Len(body.files) :
              \E j \in 1..Len(attachments) :
                  /\ attachments[j].fileName = LastSegment(Sanitize(body.files[k].filename))
                  /\ attachments[j].fileBytes = body.files[k].bytes
        /\ (body.files # <<>> /\ pc = "done") => responses[1].status # 404

\* C7 (amended): once the listing has returned, every upload has been written,
\* the store holds at each uploaded path the content of the last file uploaded
\* to that path, that blob is among the attachments, and a request that
\* uploaded a file is not answered 404.
C7_LastUploadRetrieved ==
    (blob_count >= 0) =>
        /\ calls.upload = Len(body.files)
        /\ upIdx = Len(body.files) + 1
        /\ \A k \in 1..Len(body.files) :
              LET name == Sanitize(body.files[k].filename)
                  same == {m \in 1..Len(body.files) : Sanitize(body.files[m].filename) = name}
                  last == CHOOSE m \in same : \A o \in same : o <= m
              IN /\ [name |-> Path(case_id, name), bytes |-> body.files[last].bytes] \in store
                 /\ \E j \in 1..Len(attachments) :
                       /\ attachments[j].fileName = LastSegment(name)
                       /\ attachments[j].fileBytes = body.files[last].bytes
        /\ blob_count >= Cardinality({Sanitize(body.files[k].filename) : k \in 1..Len(body.files)})
        /\ (body.files # <<>> /\ pc = "done") => responses[1].status # 404

\* Two files with one name and different contents, over an existing blob
C7_Witness ==
    /\ blob_count >= 0
    /\ Len(body.files) = 2
    /\ body.files[1].filename = body.files[2].filename
    /\ body.files[1].filename = <<"d", "\\", "a">>
    /\ body.files[1].bytes = "b1"
    /\ body.files[2].bytes = "b2"
    /\ blob_count > 1

\* C8: whatever subset of the OCR analyses raises, the OCR step ends by going on
\* to the first completion, without a response, with the empty string at the
\* position of each attachment whose analysis raised and the attachment's own
\* text at every other position.
C8_OcrFailureIsolated ==
    [][ (pc = "ocr" /\ pc' # "ocr") =>
           /\ pc' = "llm1"
           /\ responses' = responses
           /\ Len(results') = NumTasks
           /\ \A i \in 1..NumTasks :
                 results'[i] = (IF i \in failed THEN EmptyStr ELSE OcrText(i)) ]_vars

\* The analysis of the second of at least three attachments raised, the others
\* did not
C8_Witness ==
    /\ pc = "llm1"
    /\ NumTasks >= 3
    /\ failed = {2}
    /\ results[2] = EmptyStr
    /\ results[1] # EmptyStr

\* Every analysis raised
C8_WitnessAll ==
    /\ pc = "llm1"
    /\ NumTasks >= 2
    /\ failed = 1..NumTasks

\* C9: when nothing was uploaded and the store holds no blob under case_id/,
\* a listing that returns is answered 404 with an error naming the case, and
\* no OCR call, completion or upsert is made.
C9_NoAttachmentsIs404 ==
    (/\ blob_count >= 0
     /\ body.files = <<>>
     /\ {b \in store : StartsWith(b.name, <<case_id, "/">>)} = {}) =>
        /\ pc = "done"
        /\ responses[1].status = 404
        /\ responses[1].error # ""
        /\ responses[1].case = case_id
        /\ calls.ocr = 0
        /\ calls.llm = 0
        /\ calls.upsert = 0
        /\ db = <<>>

\* A 404 while the store holds a blob of another case
C9_Witness ==
    /\ pc = "done"
    /\ responses[1].status = 404
    /\ case_id = "c1"
    /\ store # EmptyStore

\* C10: an invocation returns exactly one response; its status is one of 200,
\* 400, 404, 500 and its body is JSON.
C10_OneJsonResponse ==
    /\ Len(responses) <= 1
    /\ (pc = "done") =>
          /\ Len(responses) = 1
          /\ responses[1].status \in {200, 400, 404, 500}
          /\ responses[1].json

====
